---- MODULE Spec2Model ----
(***************************************************************************)
(* Model of the MCP client of mcp-client-typescript/index.ts: the session, *)
(* transport and resource registries of MCPClient, connectToServer,        *)
(* processQuery (tool dispatch and the chat-completion rounds), chatLoop,  *)
(* cleanup and main.                                                       *)
(*                                                                         *)
(* A string is a sequence of tokens.  The tokens "__", " " and "\n" are    *)
(* the separators the code splits and joins on; template literals are      *)
(* concatenations of token sequences.                                      *)
(***************************************************************************)
EXTENDS Integers, Sequences, FiniteSets, TLC

\* ------------------------------------------------------------- bounds
\* greatest number of tool_calls in the first chat-completion response
MaxCalls == 2
\* greatest length of the date strings tried besides the calendar dates
MaxDate == 3
\* greatest number of GET /sse connections to one provider
MaxSessions == 2
\* greatest number of transports created by one client
MaxTransports == 3
\* greatest number of close() calls on one transport
MaxCloses == 2

\* ------------------------------------------------------------- strings
Undef == <<"#undefined">>
SEP == <<"__">>

Falsy(s) == s = Undef \/ s = <<>>

RECURSIVE SplitAcc(_, _, _)
SplitAcc(s, sep, cur) ==
    IF s = <<>> THEN <<cur>>
    ELSE IF Head(s) = sep THEN <<cur>> \o SplitAcc(Tail(s), sep, <<>>)
    ELSE SplitAcc(Tail(s), sep, Append(cur, Head(s)))

\* String.prototype.split(sep): the pieces between the occurrences of sep
Split(s, sep) == SplitAcc(s, sep, <<>>)

RECURSIVE JoinEachLine(_, _)
\* a join that ends every part, the last one too, with the separator
JoinEachLine(parts, sep) ==
    IF parts = <<>> THEN <<>>
    ELSE parts[1] \o <<sep>> \o JoinEachLine(Tail(parts), sep)

RECURSIVE Join(_, _)
\* Array.prototype.join(sep)
Join(parts, sep) ==
    IF parts = <<>> THEN <<>>
    ELSE IF Len(parts) = 1 THEN parts[1]
    ELSE parts[1] \o <<sep>> \o Join(Tail(parts), sep)

\* parts[i] of a JavaScript array: undefined past the end (i is 1-based here)
Part(parts, i) == IF i <= Len(parts) THEN parts[i] ELSE Undef

\* ------------------------------------------------------------- Map
\* A JavaScript Map keeps insertion order: a sequence of <<key, value>> pairs.
MapKeys(m) == [i \in 1..Len(m) |-> m[i][1]]
MapHas(m, k) == \E i \in 1..Len(m) : m[i][1] = k
MapGet(m, k) == m[CHOOSE i \in 1..Len(m) : m[i][1] = k][2]
MapSet(m, k, v) ==
    IF MapHas(m, k)
    THEN [i \in 1..Len(m) |-> IF m[i][1] = k THEN <<k, v>> ELSE m[i]]
    ELSE Append(m, <<k, v>>)

RECURSIVE MapFromEntries(_)
\* new Map(entries): a repeated key keeps its first position and its last value
MapFromEntries(es) ==
    IF es = <<>> THEN <<>>
    ELSE MapSet(MapFromEntries(SubSeq(es, 1, Len(es) - 1)),
                es[Len(es)][1], es[Len(es)][2])

\* ------------------------------------------------------------- configuration
NameA == <<"A">>
NameB == <<"B">>

CmdOk == <<"node", " ", "~/", "server.js">>
CmdNoProgram == <<" ", "server.js">>
UrlOk == <<"http://localhost:3001/sse">>

Cfg(n, t, c, u, o) == [name |-> n, type |-> t, command |-> c, url |-> u, isOpen |-> o]

\* the provider lists the runs of main start from (mcp-server-config.js):
\* two providers and a disabled one, one name listed twice, two entries
\* for which no transport can be created, and a provider followed by an
\* entry whose command has no program
Configs ==
    { << Cfg(NameA, "command", CmdOk, Undef, TRUE),
         Cfg(<<"C">>, "sse", Undef, UrlOk, FALSE),
         Cfg(NameB, "sse", Undef, UrlOk, TRUE) >>,
      << Cfg(NameA, "command", CmdOk, Undef, TRUE),
         Cfg(NameA, "sse", Undef, UrlOk, TRUE) >>,
      << Cfg(NameA, "command", CmdNoProgram, Undef, TRUE),
         Cfg(NameB, "sse", Undef, Undef, TRUE) >>,
      << Cfg(NameB, "sse", Undef, UrlOk, TRUE),
         Cfg(NameA, "command", CmdNoProgram, Undef, TRUE) >> }

\* the provider list of the runs that explore one conversation in depth
OneProvider == << Cfg(NameA, "command", CmdOk, Undef, TRUE) >>

VARIABLES
    depth,         \* TRUE: conversations with tool calls are explored
    config,        \* the imported provider list
    pc,            \* position of main / chatLoop / processQuery
    ci,            \* main: index of the next entry of openServers
    sessions,      \* MCPClient.sessions: Map name -> client id
    transports,    \* MCPClient.transports: Map name -> transport id
    resources,     \* MCPClient.resources: Map name -> Map of resource names
    made,          \* transports created so far: made[id] = "new" | "connected"
    owner,         \* owner[id]: the provider name transport id was created for
    cachedFrom,    \* Map name -> the client whose listResources answer is cached
    closeCalls,    \* closeCalls[id]: how often close() was called on transport id
    okConnects,    \* number of connectToServer calls that returned normally
    failedNames,   \* names whose latest connectToServer call threw
    entered,       \* chatLoop has been entered
    failing,       \* main is unwinding with an error (the finally block runs)
    exit,          \* "running" | "ok" | "error": how main ended
    \* ---- locals of the running processQuery call
    query,         \* the trimmed input line
    messages,      \* the transcript
    availableTools,\* names of the functions offered to the model
    completion,    \* message.content of the first response
    toolCalls,     \* message.tool_calls of the first response
    routes,        \* routes[i]: the branch tool call i took, once it was taken up
    tc,            \* index of the tool call being processed
    finalText,     \* the output accumulator
    chatCalls,     \* chat-completion calls made by this processQuery
    provCalls,     \* provider calls made by this processQuery, in order
    result,        \* what the finished processQuery returned or threw
    earlier,       \* how the previous processQuery call ended, remembered
                   \* until the next call has built its first transcript
    answer,        \* what the provider returned for the request just
                   \* dispatched, remembered until the follow-up call
    listed,        \* listed[i]: the tools session i listed for this processQuery
    \* ---- the provider side
    srv,           \* the provider process: the handler that runs, its
                   \* arguments, its backend request and its reply
    app            \* the provider's HTTP endpoints: the sessions object, the
                   \* transports created and the request handled last

mainVars == <<app, srv, depth, config, pc, ci, sessions, transports, resources, made, owner,
              cachedFrom, closeCalls, okConnects, failedNames, entered, failing, exit>>
mainVars_but_pc == <<app, srv, depth, config, ci, sessions, transports, resources, made, owner,
                     cachedFrom, closeCalls, okConnects, failedNames, entered, failing, exit>>
queryVars == <<query, messages, availableTools, completion, toolCalls, routes, tc,
               finalText, chatCalls, provCalls, result, earlier, answer, listed>>
vars == <<mainVars, queryVars>>

\* ------------------------------------------------------------- providers
\* resource names a provider may declare, and the lists it may answer with
ResLists == { <<>>, << <<"r">> >> }

\* outcome of an awaited external call
Outcomes == {"ok", "throw"}

\* static getOpenServers()
getOpenServers(cfg) ==
    LET open == SelectSeq(cfg, LAMBDA e : e.isOpen)
    IN  [i \in 1..Len(open) |-> open[i].name]

\* config.find(cfg => cfg.name === serverName): the first match, or undefined
HasConfig(cfg, serverName) == \E i \in 1..Len(cfg) : cfg[i].name = serverName
FindConfig(cfg, serverName) ==
    cfg[CHOOSE i \in 1..Len(cfg) :
           /\ cfg[i].name = serverName
           /\ \A j \in 1..(i - 1) : cfg[j].name # serverName]

\* a createCommandTransport that does not look at the program token
createCommandTransportUnchecked(shell) == "ok"

\* createCommandTransport: "ok", or "throw" when the first token is empty
createCommandTransport(shell) ==
    LET command == Split(shell, " ")[1]
    IN  IF Falsy(command) THEN "throw" ELSE "ok"

\* lines 55-66 of connectToServer: is a transport created for this name?
TransportCreated(cfg, serverName) ==
    LET serverConfig == FindConfig(cfg, serverName)
    IN  IF ~HasConfig(cfg, serverName) THEN FALSE
        ELSE IF serverConfig.type = "command" /\ ~Falsy(serverConfig.command)
             THEN createCommandTransport(serverConfig.command) = "ok"
        ELSE IF serverConfig.type = "sse" /\ ~Falsy(serverConfig.url)
             THEN TRUE
        ELSE FALSE

\* the Map built from a listResources answer (lines 91-99)
ResourceMap(list) ==
    MapFromEntries([i \in 1..Len(list) |-> <<list[i], [name |-> list[i]]>>])

\* lines 82-83: the registries after a completed handshake
RegisterSession(m, serverName, id) == MapSet(m, serverName, id)

\* connectToServer(serverName).  hs, lt, lr: the outcomes of client.connect,
\* client.listTools and client.listResources; rl: the resources listed.
\* The result: the registries afterwards and whether the call threw.
connectToServer(cfg, st, serverName, hs, lt, lr, rl) ==
    IF ~TransportCreated(cfg, serverName)
    THEN [st EXCEPT !.threw = TRUE]
    ELSE
      LET id == Len(st.made) + 1
      IN  IF hs = "throw"
          THEN [st EXCEPT !.made = Append(st.made, "new"), !.threw = TRUE]
          ELSE
            LET reg == [st EXCEPT
                          !.made = Append(st.made, "connected"),
                          !.sessions = RegisterSession(st.sessions, serverName, id),
                          !.transports = RegisterSession(st.transports, serverName, id)]
            IN  IF lt = "throw" \/ lr = "throw"
                THEN [reg EXCEPT !.threw = TRUE]
                ELSE [reg EXCEPT
                        !.resources = MapSet(reg.resources, serverName, ResourceMap(rl)),
                        !.threw = FALSE]

\* hasActiveSessions()
hasActiveSessions(sess) == Len(sess) > 0

ClientState ==
    [sessions |-> sessions, transports |-> transports, resources |-> resources,
     made |-> made, threw |-> FALSE]

\* ------------------------------------------------------------- processQuery
\* local names a provider may give its tools, and the lists it may answer with
ToolLists == { << <<"t">> >>, << <<"listResources">> >>, << <<"t", "__", "u">> >> }
ListToolsAnswers ==
    [ok : {TRUE}, tools : ToolLists] \cup [ok : {FALSE}, tools : {<<>>}]

\* contents of an assistant message: null, or a text
NoContent == <<>>
Contents == { NoContent, <<"hello">> }

\* toolCall.function.arguments: JSON with white space, and malformed JSON
ArgStrings == { <<"{", " ", "}">>, <<"{">> }
JsonValid(s) == SelectSeq(s, LAMBDA c : c # " ") = <<"{", "}">>
JsonParse(s) == SelectSeq(s, LAMBDA c : c # " ")
\* a parsed value is held as its canonical text
JsonStringify(v) == v

Item(t, x, d, m) == [type |-> t, text |-> x, data |-> d, mimeType |-> m]
\* base64 payloads of image and binary parts; a payload may be empty
Payloads == { <<"BYTES">>, <<"OTHER">> }
EmptyPayload == <<>>
\* results of session.callTool: {content: [...]}
ToolResults ==
    { << Item("text", <<"42">>, Undef, Undef) >> }
    \cup { << Item("image", Undef, d, <<"image/", "png">>),
              Item("audio", Undef, d, <<"audio/", "wav">>) >> : d \in Payloads }

RContent(u, m, x, b) == [uri |-> u, mimeType |-> m, text |-> x, blob |-> b]
\* results of session.readResource: {contents: [...]}
ResourceResults ==
    { << RContent(<<"/r">>, <<"text/", "plain">>, <<"data">>, Undef) >> }
    \cup { << RContent(<<"/r">>, <<"image/", "png">>, Undef, b),
              RContent(<<"/r">>, <<"application/", "pdf">>, Undef, b) >> :
            b \in Payloads \cup {EmptyPayload} }

\* a tool offered under its local name, without the provider segment
QualifyToolUnqualified(serverName, toolName) == toolName
\* lines 181-188: the qualified name of a tool
QualifyTool(serverName, toolName) == serverName \o SEP \o toolName
\* line 195
QualifyList(serverName) == serverName \o SEP \o <<"listResources">>
\* line 212
QualifyRead(serverName, resourceName) ==
    serverName \o SEP \o <<"readResource">> \o SEP \o resourceName

\* one entry of availableTools: its function.name; its description and
\* parameters are held as the capability they were written for
Offer(name, kind, serverName, localName) ==
    [name |-> name, kind |-> kind, server |-> serverName, local |-> localName]

\* a tool list that offers listResources only when some resource is cached
ToolsOfServerWithResources(serverName, tools, res) ==
    [i \in 1..Len(tools) |->
       Offer(QualifyTool(serverName, tools[i]), "tool", serverName, tools[i])]
    \o (IF MapHas(res, serverName) /\ MapGet(res, serverName) # <<>>
        THEN << Offer(QualifyList(serverName), "listResources", serverName, Undef) >>
             \o LET rs == MapKeys(MapGet(res, serverName))
                IN  [i \in 1..Len(rs) |->
                       Offer(QualifyRead(serverName, rs[i]), "readResource",
                             serverName, rs[i])]
        ELSE <<>>)

\* lines 179-222: what one session adds to availableTools
ToolsOfServer(serverName, tools, res) ==
    [i \in 1..Len(tools) |->
       Offer(QualifyTool(serverName, tools[i]), "tool", serverName, tools[i])]
    \o << Offer(QualifyList(serverName), "listResources", serverName, Undef) >>
    \o (IF MapHas(res, serverName)
        THEN LET rs == MapKeys(MapGet(res, serverName))
             IN  [i \in 1..Len(rs) |->
                    Offer(QualifyRead(serverName, rs[i]), "readResource",
                          serverName, rs[i])]
        ELSE <<>>)

RECURSIVE BuildTools(_, _, _, _)
\* lines 176-223: the loop over this.sessions; answers[i] is what session i
\* answers to listTools.  The loop stops at the first listTools that throws.
BuildTools(sess, res, answers, i) ==
    IF i > Len(sess) THEN [threw |-> FALSE, tools |-> <<>>, asked |-> 0]
    ELSE IF ~answers[i].ok THEN [threw |-> TRUE, tools |-> <<>>, asked |-> 1]
    ELSE LET rest == BuildTools(sess, res, answers, i + 1)
         IN  [threw |-> rest.threw,
              tools |-> ToolsOfServer(sess[i][1], answers[i].tools, res) \o rest.tools,
              asked |-> rest.asked + 1]

\* a call to a provider session, and whether it threw
ProvCall(op, serverName, client, name, threw) ==
    [op |-> op, server |-> serverName, client |-> client, name |-> name,
     threw |-> threw]

\* lines 245-247 and 268: the segments of a requested function name
functionNameParts(name) == Split(name, "__")
RouteServer(name) == Part(functionNameParts(name), 1)
RouteType(name) == Part(functionNameParts(name), 2)
RouteResource(name) == Part(functionNameParts(name), 3)

\* lines 258-301: which branch handles the request
RouteKind(name) ==
    IF RouteType(name) = <<"listResources">> THEN "listResources"
    ELSE IF RouteType(name) = <<"readResource">> THEN "readResource"
    ELSE "callTool"

ImageNoteOut == <<"[Image received: Health data visualization that cannot be displayed directly. The image shows health metrics for the requested device and date.]">>
ImageNoteMsg == <<"[Image received: This is a health data visualization that cannot be displayed directly in text. The image shows health metrics visualization for the requested device and date.]">>

\* a rendering that inlines the payload of an image part
ItemTextInlinesData(item, imageNote) ==
    IF item.type = "text" THEN (IF Falsy(item.text) THEN <<>> ELSE item.text)
    ELSE IF item.type = "image" THEN imageNote \o item.data
    ELSE <<"[Content of type ", item.type, "]">>

\* lines 315-328 and 344-357: one item of an array content as text
ItemText(item, imageNote) ==
    IF item.type = "text" THEN (IF Falsy(item.text) THEN <<>> ELSE item.text)
    ELSE IF item.type = "image" THEN imageNote
    ELSE <<"[Content of type ", item.type, "]">>

\* content is a string (isArray FALSE) or an array of items
RenderContent(content, isArray, imageNote) ==
    IF ~isArray THEN content
    ELSE Join([i \in 1..Len(content) |-> ItemText(content[i], imageNote)], "\n")

RECURSIVE ResourceText(_)
\* lines 274-284
ResourceText(contents) ==
    IF contents = <<>> THEN <<>>
    ELSE LET c == contents[1]
         IN  (IF c.mimeType[1] = "image/"
              THEN <<"[Image: ">> \o c.uri \o <<" (">> \o c.mimeType \o <<")]">>
              ELSE IF ~Falsy(c.text) THEN c.text
              ELSE IF ~Falsy(c.blob)
              THEN <<"[Binary data: ">> \o c.uri \o <<" (">> \o c.mimeType \o <<")]">>
              ELSE <<>>)
             \o ResourceText(Tail(contents))

\* lines 262-265
ResourceListText(serverName, rmap) ==
    <<"Available resources on ">> \o serverName \o <<":", "\n">>
    \o Join([i \in 1..Len(rmap) |->
               <<"- ">> \o rmap[i][1] \o <<": ", "No description">>], "\n")

\* a user message that does not hold the text it was made for
UserMsgWithoutText(text) ==
    [role |-> "user", content |-> <<>>, tool_calls |-> <<>>, tool_call_id |-> 0]
UserMsg(text) ==
    [role |-> "user", content |-> text, tool_calls |-> <<>>, tool_call_id |-> 0]
AssistantMsg(call) ==
    [role |-> "assistant", content |-> <<>>, tool_calls |-> <<call>>, tool_call_id |-> 0]
\* a tool message that does not name the call it answers
ToolMsgWithoutId(call, text) ==
    [role |-> "tool", content |-> text, tool_calls |-> <<>>, tool_call_id |-> 0]
ToolMsg(call, text) ==
    [role |-> "tool", content |-> text, tool_calls |-> <<>>, tool_call_id |-> call.id]

ErrorResult(text) == [kind |-> "error", text |-> text]
ValueResult(text) == [kind |-> "value", text |-> text]
NoResult == [kind |-> "none", text |-> <<>>]
\* the end of a processQuery call: value or error, and the length its
\* transcript had reached
Earlier(kind, n) == [kind |-> kind, sent |-> n]
NoEarlier == Earlier("none", 0)
\* what a provider returned: the content of a callTool result or the
\* contents of a readResource result
Answer(kind, value) == [kind |-> kind, value |-> value]
NoAnswer == Answer("none", <<>>)

\* a readResource that asks the provider a second time after a failure
readResourceRetried(sess, res, serverName, resourceName, params, pout, rr) ==
    IF ~MapHas(sess, serverName)
    THEN [threw |-> TRUE, calls |-> <<>>, contents |-> <<>>,
          message |-> <<"No session found for server: ">> \o serverName]
    ELSE IF ~MapHas(res, serverName) \/ ~MapHas(MapGet(res, serverName), resourceName)
    THEN [threw |-> TRUE, calls |-> <<>>, contents |-> <<>>,
          message |-> <<"Resource '">> \o resourceName
                      \o <<"' not found on server: ">> \o serverName]
    ELSE LET call == ProvCall("readResource", serverName, MapGet(sess, serverName),
                              <<"/">> \o resourceName, pout = "throw")
         IN  [threw |-> pout = "throw",
              calls |-> IF pout = "throw" THEN <<call, call>> ELSE <<call>>,
              contents |-> IF pout = "throw" THEN <<>> ELSE rr,
              message |-> <<"provider error">>]

\* lines 137-163: MCPClient.readResource; pout and rr: the provider's answer
readResource(sess, res, serverName, resourceName, params, pout, rr) ==
    IF ~MapHas(sess, serverName)
    THEN [threw |-> TRUE, calls |-> <<>>, contents |-> <<>>,
          message |-> <<"No session found for server: ">> \o serverName]
    ELSE IF ~MapHas(res, serverName) \/ ~MapHas(MapGet(res, serverName), resourceName)
    THEN [threw |-> TRUE, calls |-> <<>>, contents |-> <<>>,
          message |-> <<"Resource '">> \o resourceName
                      \o <<"' not found on server: ">> \o serverName]
    ELSE [threw |-> pout = "throw",
          calls |-> << ProvCall("readResource", serverName, MapGet(sess, serverName),
                                <<"/">> \o resourceName, pout = "throw") >>,
          contents |-> IF pout = "throw" THEN <<>> ELSE rr,
          message |-> <<"provider error">>]

\* lines 289-293: the catch around this.readResource
ReadResourceCaught == TRUE

\* the branch of lines 250-301 a request took
Route(kind, serverName, localName) ==
    [kind |-> kind, server |-> serverName, local |-> localName]

Skipped(out, route) ==
    [outcome |-> "skip", out |-> out, content |-> <<>>, isArray |-> FALSE,
     calls |-> <<>>, err |-> <<>>, route |-> route]
Done(out, content, isArray, calls, route) ==
    [outcome |-> "done", out |-> out, content |-> content, isArray |-> isArray,
     calls |-> calls, err |-> <<>>, route |-> route]
Thrown(out, calls, err, route) ==
    [outcome |-> "throw", out |-> out, content |-> <<>>, isArray |-> FALSE,
     calls |-> calls, err |-> err, route |-> route]

\* lines 250-253: the note pushed for a request whose server has no session
ServerNotFound(serverName) == <<"[Error: Server ">> \o serverName \o <<" not found]">>

\* lines 245-301 for one toolCall: the branch taken, the lines pushed to
\* finalText, the result content and the provider calls made.
\* pout: outcome of the provider call; tr, rr: what the provider answers.
DispatchCall(call, sess, res, pout, tr, rr) ==
    LET serverName == RouteServer(call.name)
        functionType == RouteType(call.name)
    IN
    IF ~MapHas(sess, serverName)
    THEN Skipped(<< ServerNotFound(serverName) >>, Route("skip", serverName, Undef))
    ELSE IF ~JsonValid(call.arguments)
    THEN Thrown(<<>>, <<>>, <<"SyntaxError">>, Route("none", serverName, Undef))
    ELSE
    LET toolArgs == JsonParse(call.arguments)
        client == MapGet(sess, serverName)
    IN
    IF RouteKind(call.name) = "listResources"
    THEN LET trace == <<"[Listing resources on server ">> \o serverName \o <<"]">>
             route == Route("listResources", serverName, Undef)
         IN  IF ~MapHas(res, serverName)
             THEN Thrown(<<trace>>, <<>>,
                         <<"No resources available for server: ">> \o serverName, route)
             ELSE Done(<<trace>>, ResourceListText(serverName, MapGet(res, serverName)),
                       FALSE, <<>>, route)
    ELSE IF RouteKind(call.name) = "readResource"
    THEN LET resourceName == RouteResource(call.name)
             r == readResource(sess, res, serverName, resourceName, toolArgs, pout, rr)
             trace == <<"[Reading resource ">> \o resourceName \o <<" on server ">>
                      \o serverName \o <<" with params ">>
                      \o JsonStringify(toolArgs) \o <<"]">>
             route == Route("readResource", serverName, resourceName)
         IN  IF r.threw
             THEN IF ReadResourceCaught
                  THEN Done(<<trace>>, <<"Error reading resource: ">> \o r.message,
                            FALSE, r.calls, route)
                  ELSE Thrown(<<trace>>, r.calls, r.message, route)
             ELSE Done(<<trace>>,
                       IF Falsy(ResourceText(r.contents))
                       THEN <<"Resource content is empty">>
                       ELSE ResourceText(r.contents),
                       FALSE, r.calls, route)
    ELSE LET trace == <<"[Calling tool ">> \o functionType \o <<" on server ">>
                      \o serverName \o <<" with args ">>
                      \o JsonStringify(toolArgs) \o <<"]">>
             calls == << ProvCall("callTool", serverName, client, functionType,
                                  pout = "throw") >>
             route == Route("callTool", serverName, functionType)
         \* session.callTool is awaited outside any try block
         IN  IF pout = "throw"
             THEN Thrown(<<trace>>, calls, <<"tool failed">>, route)
             ELSE Done(<<trace>>, tr, TRUE, calls, route)

\* the answers a provider may give to a call of one kind: there is an answer
\* to choose only when the request is routed to that kind of call
AnswersTo(kind, name, answers) ==
    IF RouteKind(name) = kind THEN answers ELSE { <<>> }

\* ------------------------------------------------------------- provider side
\* The handlers of the providers that call the fixed backend: part_000 (tools
\* healthMetrics and getHealthImageData, resource healthImage) and the
\* weather server (tool healthMetrics).  A date is a sequence of characters.
Handlers ==
    { [server |-> "part_000", name |-> "healthMetrics"],
      [server |-> "part_000", name |-> "getHealthImageData"],
      [server |-> "part_000", name |-> "healthImage"],
      [server |-> "weather-server", name |-> "healthMetrics"] }

\* the default value of the date parameter
DefaultDate(h) ==
    IF h.name = "healthMetrics"
    THEN <<"2", "0", "2", "5", "0", "4", "0", "1">>
    ELSE <<"2", "0", "2", "5", "0", "4", "1", "8">>

\* date.includes('-')
IncludesDash(date) == \E i \in 1..Len(date) : date[i] = "-"

\* date.replace(/-/g, '')
ReplaceDashes(date) == SelectSeq(date, LAMBDA c : c # "-")

\* formattedDate of part_000
FormattedDate(date) == IF IncludesDash(date) THEN ReplaceDashes(date) ELSE date

\* displayDate of the tools of part_000
DisplayDate(formattedDate) ==
    IF Len(formattedDate) = 8
    THEN SubSeq(formattedDate, 1, 4) \o <<"-">> \o SubSeq(formattedDate, 5, 6)
         \o <<"-">> \o SubSeq(formattedDate, 7, 8)
    ELSE formattedDate

\* the path of the URL handed to axios.get; date is Undef when it was omitted
BackendPath(h, id, date) ==
    LET d == IF date = Undef THEN DefaultDate(h) ELSE date
    IN  IF h.server = "weather-server"
        THEN <<"/get_daily_data_by_device/">> \o id \o <<"/">> \o d
        ELSE IF h.name = "healthMetrics"
        THEN <<"/get_daily_data_by_device/">> \o id \o <<"/">> \o FormattedDate(d)
        ELSE <<"/get_png_file_by_device/">> \o id \o <<"/">> \o FormattedDate(d)

\* axios.get is given a timeout by part_000 only
HasTimeout(h) == h.server = "part_000"

\* how the backend request ends: a response whose body holds readings
\* ("data"), holds none ("nodata"), is a PNG image ("png") or is no PNG
\* image ("notpng"); a timeout (error.code ECONNABORTED); any other failure
BackendOutcomes(h) ==
    (IF h.name = "healthMetrics" THEN {"data", "nodata"} ELSE {"png", "notpng"})
    \cup (IF HasTimeout(h) THEN {"timeout"} ELSE {})
    \cup {"error"}

TextResult(text) == [kind |-> "result", type |-> "text", text |-> text]
ImageResult == [kind |-> "result", type |-> "image", text |-> <<>>]
BlobContents == [kind |-> "result", type |-> "blob", text |-> <<>>]
Raised(message) == [kind |-> "error", type |-> "none", text |-> message]
NoReply == [kind |-> "none", type |-> "none", text |-> <<>>]

TimedOutText == <<"Request timed out. The health data server is not responding.">>

\* the healthMetrics tool of part_000
healthMetrics(userId, date, outcome) ==
    LET displayDate == DisplayDate(FormattedDate(date))
    IN  CASE outcome = "nodata" ->
               TextResult(<<"No health metrics found for user ">> \o userId
                          \o <<" on ">> \o displayDate \o <<".">>)
          [] outcome = "data" ->
               TextResult(<<"Health Summary for User ">> \o userId
                          \o <<" on ">> \o displayDate \o <<":">>)
          [] outcome = "timeout" -> TextResult(TimedOutText)
          [] OTHER ->
               TextResult(<<"Unable to retrieve health metrics for user ">> \o userId
                          \o <<". Please try again later.">>)

\* the getHealthImageData tool of part_000
getHealthImageData(deviceId, date, outcome) ==
    LET displayDate == DisplayDate(FormattedDate(date))
    IN  CASE outcome = "png" -> ImageResult
          [] outcome = "notpng" ->
               TextResult(<<"Unable to retrieve health visualization for device ">>
                          \o deviceId \o <<" on ">> \o displayDate
                          \o <<". The server did not return a valid image.">>)
          [] outcome = "timeout" -> TextResult(TimedOutText)
          [] OTHER ->
               TextResult(<<"Unable to retrieve health visualization for device ">>
                          \o deviceId \o <<". Please try again later.">>)

\* the healthImage resource of part_000: the catch block throws again
healthImage(deviceId, date, outcome) ==
    CASE outcome = "png" -> BlobContents
      [] outcome = "timeout" -> Raised(TimedOutText)
      [] OTHER ->
           Raised(<<"Unable to retrieve health visualization for device ">>
                  \o deviceId \o <<". Please try again later.">>)

\* the healthMetrics tool of the weather server
weatherHealthMetrics(userId, date, outcome) ==
    CASE outcome = "data" ->
           TextResult(<<"Health Metrics for Device ">> \o userId \o <<" on ">>
                      \o date \o <<":">>)
      [] outcome = "nodata" ->
           TextResult(<<"Health Metrics for Device ">> \o userId \o <<" on ">>
                      \o date \o <<":">> \o <<"\n">> \o <<"Data format not recognized.">>)
      [] OTHER ->
           TextResult(<<"Unable to retrieve health metrics for device ">> \o userId
                      \o <<". Error: ">>)

\* what handler h answers once the backend request has ended
HandlerReply(h, id, date, outcome) ==
    LET d == IF date = Undef THEN DefaultDate(h) ELSE date
    IN  IF h.server = "weather-server" THEN weatherHealthMetrics(id, d, outcome)
        ELSE IF h.name = "healthMetrics" THEN healthMetrics(id, d, outcome)
        ELSE IF h.name = "getHealthImageData" THEN getHealthImageData(id, d, outcome)
        ELSE healthImage(id, d, outcome)

\* ---- the interpretHealthMetrics tool of part_000
\* the thresholds above which motion, heart rate and citta count as high
MotionThreshold == 5
HeartRateThreshold == 80
CittaThreshold == 50

Metrics(heartRate, citta, motion) ==
    [heartRate |-> heartRate, citta |-> citta, motion |-> motion]
NoMetrics == Metrics(0, 0, 0)

\* the values tried for each argument: below, at and above its threshold
MetricsTried ==
    { Metrics(h, c, m) : h \in {0, HeartRateThreshold, HeartRateThreshold + 1},
                         c \in {0, CittaThreshold, CittaThreshold + 1},
                         m \in {0, MotionThreshold, MotionThreshold + 1} }

\* a classification whose last branch tests the motion the wrong way round
interpretHealthMetricsNoEighth(heartRate, citta, motion) ==
    LET isHighMotion == motion > MotionThreshold
        isHighHeartRate == heartRate > HeartRateThreshold
        isHighCitta == citta > CittaThreshold
    IN  IF isHighCitta /\ ~isHighHeartRate /\ ~isHighMotion THEN <<"1">>
        ELSE IF isHighCitta /\ isHighHeartRate /\ isHighMotion THEN <<"2">>
        ELSE IF ~isHighCitta /\ ~isHighHeartRate /\ ~isHighMotion THEN <<"3">>
        ELSE IF ~isHighCitta /\ ~isHighHeartRate /\ isHighMotion THEN <<"4">>
        ELSE IF ~isHighCitta /\ isHighHeartRate /\ isHighMotion THEN <<"5">>
        ELSE IF isHighCitta /\ ~isHighHeartRate /\ isHighMotion THEN <<"6">>
        ELSE IF ~isHighCitta /\ isHighHeartRate /\ ~isHighMotion THEN <<"7">>
        ELSE IF isHighCitta /\ isHighHeartRate /\ isHighMotion THEN <<"8">>
        ELSE <<>>

\* lines 129-164: the state the if chain assigns; <<>> is the initial ""
interpretHealthMetrics(heartRate, citta, motion) ==
    LET isHighMotion == motion > MotionThreshold
        isHighHeartRate == heartRate > HeartRateThreshold
        isHighCitta == citta > CittaThreshold
    IN  IF isHighCitta /\ ~isHighHeartRate /\ ~isHighMotion THEN <<"1">>
        ELSE IF isHighCitta /\ isHighHeartRate /\ isHighMotion THEN <<"2">>
        ELSE IF ~isHighCitta /\ ~isHighHeartRate /\ ~isHighMotion THEN <<"3">>
        ELSE IF ~isHighCitta /\ ~isHighHeartRate /\ isHighMotion THEN <<"4">>
        ELSE IF ~isHighCitta /\ isHighHeartRate /\ isHighMotion THEN <<"5">>
        ELSE IF isHighCitta /\ ~isHighHeartRate /\ isHighMotion THEN <<"6">>
        ELSE IF ~isHighCitta /\ isHighHeartRate /\ ~isHighMotion THEN <<"7">>
        ELSE IF isHighCitta /\ isHighHeartRate /\ ~isHighMotion THEN <<"8">>
        ELSE <<>>

Idle == [pc |-> "idle", handler |-> [server |-> "none", name |-> "none"],
         id |-> <<>>, date |-> <<>>, path |-> <<>>, outcome |-> "none",
         reply |-> NoReply, metrics |-> NoMetrics, state |-> <<>>]

\* the values tried for the userId / deviceId argument
Ids == { <<"9F2BC220625C29D">>, <<"dev">> }

\* the values tried for the date argument: calendar dates written with and
\* without dashes, every short string over a digit and the dash, and Undef
\* for a call that leaves the date out
Dates ==
    { <<"2", "0", "2", "5", "0", "4", "0", "1">>,
      <<"2", "0", "2", "5", "-", "0", "4", "-", "0", "1">>,
      <<"2", "0", "2", "5", "0", "4", "-", "0", "1">>,
      Undef }
    \cup UNION { [1..n -> {"4", "-"}] : n \in 0..MaxDate }

\* ---- the HTTP endpoints of the provider (GET /sse, POST /messages)
\* sseTransport.sessionId of the n-th transport: a fresh identifier
SessionId(n) == <<"session-", n>>

\* names every object inherits from Object.prototype
ObjectPrototypeKeys == { <<"constructor">>, <<"toString">>, <<"__proto__">> }

\* sessions[sessionId] on the object literal {}: the entry stored under the
\* key, else what the prototype holds under it, else undefined
SessionLookup(table, sessionId) ==
    IF MapHas(table, sessionId)
    THEN [found |-> "entry", transport |-> MapGet(table, sessionId)]
    ELSE IF sessionId \in ObjectPrototypeKeys
    THEN [found |-> "inherited", transport |-> 0]
    ELSE [found |-> "undefined", transport |-> 0]

\* req.query.sessionId of the POST requests tried: identifiers a GET may
\* have issued, an unknown one, names of Object.prototype, and none
PostedIds ==
    { SessionId(n) : n \in 1..MaxSessions }
    \cup { <<"session-", 0>>, Undef } \cup ObjectPrototypeKeys

Handled(op, sessionId, status, by) ==
    [op |-> op, sessionId |-> sessionId, status |-> status, by |-> by]

\* app.post("/messages"): the response status and the transport whose
\* handlePostMessage ran (0: none).  An inherited value is truthy and has no
\* transport property, so the call on it throws a TypeError.
postMessages(table, sessionId) ==
    LET session == SessionLookup(table, sessionId)
    IN  IF session.found = "undefined"
        THEN Handled("post", sessionId, "404", 0)
        ELSE IF session.found = "inherited"
        THEN Handled("post", sessionId, "TypeError", 0)
        ELSE Handled("post", sessionId, "handled", session.transport)

NoRequests == [sessions |-> <<>>, made |-> 0, last |-> Handled("none", <<>>, "none", 0)]

\* ------------------------------------------------------------- chatLoop input
AllLines == { <<"quit">>, <<" ", "QUIT", " ">>, <<"hi">>, <<" ">> }
Lines == IF depth THEN { <<"quit">>, <<"hi">> } ELSE AllLines
\* tool_calls of the first response: none in the runs that explore main
CallBound == IF depth THEN MaxCalls ELSE 0

RECURSIVE TrimStart(_)
TrimStart(s) == IF s # <<>> /\ Head(s) = " " THEN TrimStart(Tail(s)) ELSE s
RECURSIVE TrimEnd(_)
TrimEnd(s) ==
    IF s # <<>> /\ s[Len(s)] = " " THEN TrimEnd(SubSeq(s, 1, Len(s) - 1)) ELSE s
\* String.prototype.trim
Trim(s) == TrimEnd(TrimStart(s))
\* String.prototype.toLowerCase, token by token
toLowerCase(s) ==
    [i \in 1..Len(s) |-> IF s[i] \in {"QUIT", "Quit"} THEN "quit" ELSE s[i]]

\* ------------------------------------------------------------- state machine
FreshQuery ==
    /\ query = <<>> /\ messages = <<>> /\ availableTools = <<>>
    /\ completion = <<>> /\ toolCalls = <<>> /\ routes = <<>>
    /\ tc = 0 /\ finalText = <<>>
    /\ chatCalls = 0 /\ provCalls = <<>> /\ listed = <<>>

InitClient ==
    /\ pc = "connect" /\ ci = 1
    /\ sessions = <<>> /\ transports = <<>> /\ resources = <<>>
    /\ made = <<>> /\ owner = <<>> /\ cachedFrom = <<>> /\ closeCalls = <<>>
    /\ okConnects = 0 /\ failedNames = {}
    /\ entered = FALSE /\ failing = FALSE /\ exit = "running"
    /\ FreshQuery /\ result = NoResult /\ earlier = NoEarlier /\ answer = NoAnswer

\* one provider, conversations with tool calls
Init == depth = TRUE /\ config = OneProvider /\ InitClient /\ srv = Idle /\ app = NoRequests

\* every provider list, conversations without tool calls
InitMain == depth = FALSE /\ config \in Configs /\ InitClient /\ srv = Idle /\ app = NoRequests

\* main, lines 435-441: one round of the loop over openServers
MainConnect ==
    /\ pc = "connect" /\ ci <= Len(getOpenServers(config))
    /\ \E hs \in Outcomes, lt \in Outcomes, lr \in Outcomes, rl \in ResLists :
         LET serverName == getOpenServers(config)[ci]
             after == connectToServer(config, ClientState, serverName, hs, lt, lr, rl)
         IN  /\ sessions' = after.sessions
             /\ transports' = after.transports
             /\ resources' = after.resources
             /\ made' = after.made
             /\ owner' = owner \o [i \in 1..(Len(after.made) - Len(made)) |-> serverName]
             /\ cachedFrom' =
                  IF after.threw THEN cachedFrom
                  ELSE MapSet(cachedFrom, serverName, MapGet(after.sessions, serverName))
             /\ closeCalls' = closeCalls \o [i \in 1..(Len(after.made) - Len(made)) |-> 0]
             /\ okConnects' = IF after.threw THEN okConnects ELSE okConnects + 1
             /\ failedNames' = IF after.threw THEN failedNames \cup {serverName}
                               ELSE failedNames \ {serverName}
    /\ ci' = ci + 1
    /\ UNCHANGED <<app, srv, depth, config, pc, entered, failing, exit, queryVars>>

\* main, lines 442-445: after the loop
MainCheck ==
    /\ pc = "connect" /\ ci > Len(getOpenServers(config))
    /\ IF ~hasActiveSessions(sessions)
       THEN pc' = "cleanup" /\ failing' = TRUE /\ entered' = entered
       ELSE pc' = "prompt" /\ failing' = failing /\ entered' = TRUE
    /\ UNCHANGED <<app, srv, depth, config, ci, sessions, transports, resources, made, owner,
                   cachedFrom, closeCalls, okConnects, failedNames, exit, queryVars>>

\* chatLoop, lines 398-403: one line read; quit leaves the loop
AskQuestion ==
    /\ pc = "prompt"
    /\ \E line \in Lines :
         LET q == Trim(line)
         IN  IF toLowerCase(q) = <<"quit">>
             THEN pc' = "cleanup" /\ query' = query
             ELSE pc' = "query" /\ query' = q
    /\ UNCHANGED <<mainVars_but_pc, messages, availableTools, completion, toolCalls,
                   routes, tc, finalText, chatCalls, provCalls, result, earlier,
                   answer, listed>>

Range(f) == { f[i] : i \in DOMAIN f }

\* a function name the model may ask for although nobody offered it
UnknownName == <<"Z", "__", "t">>
\* a read of a resource that no provider declared
UnknownResource == <<"A", "__", "readResource", "__", "zz">>
RequestNames(offered) ==
    { e.name : e \in Range(offered) } \cup {UnknownName, UnknownResource}

ToolCall(i, name, arguments) == [id |-> i, name |-> name, arguments |-> arguments]

\* processQuery, lines 166-223: the guard, the transcript seed, the tool list
StartQuery ==
    /\ pc = "query"
    /\ IF Len(sessions) = 0
       THEN /\ pc' = "threw"
            /\ result' = ErrorResult(<<"Not connected to any server">>)
            /\ UNCHANGED <<messages, availableTools, provCalls, listed>>
       ELSE \E answers \in [1..Len(sessions) -> ListToolsAnswers] :
              LET built == BuildTools(sessions, resources, answers, 1)
              IN  /\ messages' = << UserMsg(query) >>
                  /\ provCalls' =
                       [i \in 1..built.asked |->
                          ProvCall("listTools", sessions[i][1], sessions[i][2], Undef,
                                   ~answers[i].ok)]
                  /\ IF built.threw
                     THEN /\ pc' = "threw"
                          /\ result' = ErrorResult(<<"listTools failed">>)
                          /\ availableTools' = availableTools
                          /\ listed' = listed
                     ELSE /\ pc' = "completion"
                          /\ result' = result
                          /\ availableTools' = built.tools
                          /\ listed' = [i \in 1..Len(sessions) |-> answers[i].tools]
    /\ UNCHANGED <<mainVars_but_pc, query, completion, toolCalls, routes, tc,
                   finalText, chatCalls, earlier, answer>>

\* processQuery, lines 226-241: the first chat-completion call and its content
FirstCompletion ==
    /\ pc = "completion"
    /\ chatCalls' = chatCalls + 1
    /\ earlier' = NoEarlier
    /\ \E out \in Outcomes, content \in Contents, n \in 0..CallBound :
       \E names \in [1..n -> RequestNames(availableTools)], args \in [1..n -> ArgStrings] :
         IF out = "throw"
         THEN /\ pc' = "threw"
              /\ result' = ErrorResult(<<"chat completion failed">>)
              /\ UNCHANGED <<completion, toolCalls, tc, finalText>>
         ELSE /\ pc' = "dispatch"
              /\ result' = result
              /\ completion' = content
              /\ toolCalls' = [i \in 1..n |-> ToolCall(i, names[i], args[i])]
              /\ tc' = 1
              /\ finalText' = IF Falsy(content) THEN finalText
                              ELSE Append(finalText, content)
    /\ UNCHANGED <<mainVars_but_pc, query, messages, availableTools, routes,
                   provCalls, answer, listed>>

\* processQuery, lines 244-364: one toolCall, up to the tool message
Dispatch ==
    /\ pc = "dispatch" /\ tc <= Len(toolCalls)
    /\ \E pout \in Outcomes,
          tr \in AnswersTo("callTool", toolCalls[tc].name, ToolResults),
          rr \in AnswersTo("readResource", toolCalls[tc].name, ResourceResults) :
         LET call == toolCalls[tc]
             d == DispatchCall(call, sessions, resources, pout, tr, rr)
         IN  /\ provCalls' = provCalls \o d.calls
             /\ routes' = Append(routes, d.route)
             /\ answer' =
                  IF d.outcome = "done" /\ d.calls # <<>> /\ ~d.calls[1].threw
                  THEN Answer(d.route.kind,
                              IF d.route.kind = "callTool" THEN tr ELSE rr)
                  ELSE NoAnswer
             /\ CASE d.outcome = "skip" ->
                       /\ finalText' = finalText \o d.out
                       /\ tc' = tc + 1
                       /\ pc' = "dispatch"
                       /\ UNCHANGED <<messages, result>>
                  [] d.outcome = "throw" ->
                       /\ pc' = "threw"
                       /\ result' = ErrorResult(d.err)
                       /\ finalText' = finalText \o d.out
                       /\ UNCHANGED <<messages, tc>>
                  [] d.outcome = "done" ->
                       /\ finalText' = finalText \o d.out
                            \o << RenderContent(d.content, d.isArray, ImageNoteOut) >>
                       /\ messages' = messages \o
                            << AssistantMsg(call),
                               ToolMsg(call, RenderContent(d.content, d.isArray,
                                                           ImageNoteMsg)) >>
                       /\ pc' = "followup"
                       /\ UNCHANGED <<tc, result>>
    /\ UNCHANGED <<mainVars_but_pc, query, availableTools, completion, toolCalls,
                   chatCalls, earlier, listed>>

\* a processQuery that asks the model again only after the last tool call
FollowUpOnlyAfterLast ==
    /\ pc = "followup"
    /\ answer' = NoAnswer
    /\ IF tc < Len(toolCalls)
       THEN /\ pc' = "dispatch" /\ tc' = tc + 1
            /\ UNCHANGED <<chatCalls, finalText, result>>
       ELSE /\ chatCalls' = chatCalls + 1
            /\ \E out \in Outcomes, content \in Contents :
                 IF out = "throw"
                 THEN /\ pc' = "threw"
                      /\ result' = ErrorResult(<<"chat completion failed">>)
                      /\ UNCHANGED <<finalText, tc>>
                 ELSE /\ pc' = "dispatch"
                      /\ result' = result
                      /\ tc' = tc + 1
                      /\ finalText' = IF Falsy(content) THEN finalText
                                      ELSE Append(finalText, content)
    /\ UNCHANGED <<mainVars_but_pc, query, messages, availableTools, completion,
                   toolCalls, routes, provCalls, earlier, listed>>

\* a follow-up that is issued but not awaited: the loop goes on at once
FollowUpNotAwaited ==
    /\ pc = "followup"
    /\ pc' = "dispatch" /\ tc' = tc + 1
    /\ answer' = NoAnswer
    /\ UNCHANGED <<mainVars_but_pc, query, messages, availableTools, completion,
                   toolCalls, routes, provCalls, chatCalls, finalText, result,
                   earlier, listed>>

\* a follow-up whose response carries a further request that is taken up
FollowUpTakesRequests ==
    /\ pc = "followup"
    /\ chatCalls' = chatCalls + 1
    /\ answer' = NoAnswer
    /\ pc' = "dispatch" /\ tc' = tc + 1
    /\ toolCalls' =
         IF Len(toolCalls) <= MaxCalls
         THEN Append(toolCalls, ToolCall(Len(toolCalls) + 1, toolCalls[tc].name,
                                         toolCalls[tc].arguments))
         ELSE toolCalls
    /\ UNCHANGED <<mainVars_but_pc, query, messages, availableTools, completion,
                   routes, provCalls, finalText, result, earlier, listed>>

\* processQuery, lines 367-376: the chat-completion call after a tool message
FollowUp ==
    /\ pc = "followup"
    /\ chatCalls' = chatCalls + 1
    /\ answer' = NoAnswer
    /\ \E out \in Outcomes, content \in Contents :
         IF out = "throw"
         THEN /\ pc' = "threw"
              /\ result' = ErrorResult(<<"chat completion failed">>)
              /\ UNCHANGED <<finalText, tc>>
         ELSE /\ pc' = "dispatch"
              /\ result' = result
              /\ tc' = tc + 1
              /\ finalText' = IF Falsy(content) THEN finalText
                              ELSE Append(finalText, content)
    /\ UNCHANGED <<mainVars_but_pc, query, messages, availableTools, completion,
                   toolCalls, routes, provCalls, earlier, listed>>

\* a processQuery that forgets the sessions when it returns
ReturnQueryDropsSessions ==
    /\ pc = "dispatch" /\ tc > Len(toolCalls)
    /\ result' = ValueResult(Join(finalText, "\n"))
    /\ pc' = "returned"
    /\ sessions' = <<>>
    /\ UNCHANGED <<app, srv, depth, config, ci, transports, resources, made, owner, cachedFrom,
                   closeCalls, okConnects, failedNames, entered, failing, exit>>
    /\ UNCHANGED <<query, messages, availableTools, completion,
                   toolCalls, routes, tc, finalText, chatCalls, provCalls, earlier,
                   answer, listed>>

\* a processQuery that returns its output newest line first
ReturnQueryNewestFirst ==
    /\ pc = "dispatch" /\ tc > Len(toolCalls)
    /\ result' = ValueResult(Join([i \in 1..Len(finalText) |->
                                     finalText[Len(finalText) + 1 - i]], "\n"))
    /\ pc' = "returned"
    /\ UNCHANGED <<mainVars_but_pc, query, messages, availableTools, completion,
                   toolCalls, routes, tc, finalText, chatCalls, provCalls, earlier,
                   answer, listed>>

\* processQuery, line 381
ReturnQuery ==
    /\ pc = "dispatch" /\ tc > Len(toolCalls)
    /\ result' = ValueResult(Join(finalText, "\n"))
    /\ pc' = "returned"
    /\ UNCHANGED <<mainVars_but_pc, query, messages, availableTools, completion,
                   toolCalls, routes, tc, finalText, chatCalls, provCalls, earlier,
                   answer, listed>>

\* a chatLoop without the inner try: an error of processQuery leaves the loop
ChatLoopRethrows ==
    /\ pc \in {"returned", "threw"}
    /\ IF pc = "threw"
       THEN pc' = "cleanup" /\ failing' = TRUE
       ELSE pc' = "prompt" /\ failing' = failing
    /\ query' = <<>> /\ messages' = <<>> /\ availableTools' = <<>>
    /\ completion' = <<>> /\ toolCalls' = <<>> /\ routes' = <<>>
    /\ tc' = 0 /\ finalText' = <<>>
    /\ chatCalls' = 0 /\ provCalls' = <<>> /\ result' = NoResult
    /\ earlier' = Earlier(result.kind, Len(messages))
    /\ answer' = NoAnswer /\ listed' = <<>>
    /\ UNCHANGED <<app, srv, depth, config, ci, sessions, transports, resources, made, owner,
                   cachedFrom, closeCalls, okConnects, failedNames, entered, exit>>

\* chatLoop, lines 403-407: the response or the error is printed; the locals
\* of the finished processQuery call are gone
ChatLoopPrint ==
    /\ pc \in {"returned", "threw"}
    /\ pc' = "prompt"
    /\ query' = <<>> /\ messages' = <<>> /\ availableTools' = <<>>
    /\ completion' = <<>> /\ toolCalls' = <<>> /\ routes' = <<>>
    /\ tc' = 0 /\ finalText' = <<>>
    /\ chatCalls' = 0 /\ provCalls' = <<>> /\ result' = NoResult
    /\ earlier' = Earlier(result.kind, Len(messages))
    /\ answer' = NoAnswer /\ listed' = <<>>
    /\ UNCHANGED mainVars_but_pc

\* a cleanup that closes every transport ever created, registered or not
cleanupClosesAll(trs, cc, failAt) ==
    [closeCalls |-> [id \in 1..Len(cc) |-> cc[id] + 1], threw |-> failAt # 0]

\* cleanup(), lines 414-420, run by main's finally block (lines 446-448).
\* failAt: the position of the first transport whose close() throws, 0 if none.
cleanup(trs, cc, failAt) ==
    LET last == IF failAt = 0 THEN Len(trs) ELSE failAt
        closed == { trs[i][2] : i \in 1..last }
    IN  [closeCalls |-> [id \in 1..Len(cc) |-> IF id \in closed THEN cc[id] + 1 ELSE cc[id]],
         threw |-> failAt # 0]

\* a cleanup that clears the transports and forgets to clear the sessions
MainCleanupKeepsSessions ==
    /\ pc = "cleanup"
    /\ \E failAt \in 0..Len(transports) :
         LET c == cleanup(transports, closeCalls, failAt)
         IN  /\ closeCalls' = c.closeCalls
             /\ transports' = IF c.threw THEN transports ELSE <<>>
             /\ exit' = IF c.threw \/ failing THEN "error" ELSE "ok"
    /\ pc' = "done"
    /\ UNCHANGED <<app, srv, depth, config, ci, sessions, resources, made, owner, cachedFrom,
                   okConnects, failedNames, entered, failing, queryVars>>

MainCleanup ==
    /\ pc = "cleanup"
    /\ \E failAt \in 0..Len(transports) :
         LET c == cleanup(transports, closeCalls, failAt)
         IN  /\ closeCalls' = c.closeCalls
             /\ transports' = IF c.threw THEN transports ELSE <<>>
             /\ sessions' = IF c.threw THEN sessions ELSE <<>>
             /\ exit' = IF c.threw \/ failing THEN "error" ELSE "ok"
    /\ pc' = "done"
    /\ UNCHANGED <<app, srv, depth, config, ci, resources, made, owner, cachedFrom, okConnects,
                   failedNames, entered, failing, queryVars>>

Next ==
    \/ MainConnect \/ MainCheck \/ AskQuestion
    \/ StartQuery \/ FirstCompletion \/ Dispatch \/ FollowUp \/ ReturnQuery
    \/ ChatLoopPrint \/ MainCleanup

Spec == Init /\ [][Next]_vars

NextMain ==
    \/ MainConnect \/ MainCheck \/ AskQuestion
    \/ StartQuery \/ FirstCompletion \/ ReturnQuery
    \/ ChatLoopPrint \/ MainCleanup

SpecMain == InitMain /\ [][NextMain]_vars

\* ---- the public methods of the client called by its owner once main's
\* ---- own run of them is over (or, for processQuery, not yet under way)
\* cleanup() called once more
CleanupAgain ==
    /\ pc \in {"done", "closed"}
    /\ \A i \in 1..Len(transports) : closeCalls[transports[i][2]] < MaxCloses
    /\ \E failAt \in 0..Len(transports) :
         LET c == cleanup(transports, closeCalls, failAt)
         IN  /\ closeCalls' = c.closeCalls
             /\ transports' = IF c.threw THEN transports ELSE <<>>
             /\ sessions' = IF c.threw THEN sessions ELSE <<>>
    /\ pc' = "closed"
    /\ UNCHANGED <<app, srv, depth, config, ci, resources, made, owner, cachedFrom, okConnects,
                   failedNames, entered, failing, exit, queryVars>>

\* connectToServer(serverName) called once more, for any configured name
ConnectAgain ==
    /\ pc \in {"done", "closed"}
    /\ Len(made) < MaxTransports
    /\ \E k \in 1..Len(config) :
       \E hs \in Outcomes, lt \in Outcomes, lr \in Outcomes, rl \in ResLists :
         LET serverName == config[k].name
             after == connectToServer(config, ClientState, serverName, hs, lt, lr, rl)
         IN  /\ sessions' = after.sessions
             /\ transports' = after.transports
             /\ resources' = after.resources
             /\ made' = after.made
             /\ owner' = owner \o [i \in 1..(Len(after.made) - Len(made)) |-> serverName]
             /\ cachedFrom' =
                  IF after.threw THEN cachedFrom
                  ELSE MapSet(cachedFrom, serverName, MapGet(after.sessions, serverName))
             /\ closeCalls' = closeCalls \o [i \in 1..(Len(after.made) - Len(made)) |-> 0]
             /\ okConnects' = IF after.threw THEN okConnects ELSE okConnects + 1
             /\ failedNames' = IF after.threw THEN failedNames \cup {serverName}
                               ELSE failedNames \ {serverName}
    /\ UNCHANGED <<app, srv, depth, config, pc, ci, entered, failing, exit, queryVars>>

\* a processQuery that asks the model before it looks at the session registry
QueryNotConnectedAsksModel ==
    /\ pc \in {"connect", "done", "closed"}
    /\ Len(sessions) = 0
    /\ chatCalls' = chatCalls + 1
    /\ result' = ErrorResult(<<"Not connected to any server">>)
    /\ UNCHANGED <<mainVars, query, messages, availableTools, completion, toolCalls,
                   routes, tc, finalText, provCalls, earlier, answer, listed>>

\* processQuery(query) called while no session is registered: lines 165-168
QueryNotConnected ==
    /\ pc \in {"connect", "done", "closed"}
    /\ Len(sessions) = 0
    /\ result' = ErrorResult(<<"Not connected to any server">>)
    /\ UNCHANGED <<mainVars, query, messages, availableTools, completion, toolCalls,
                   routes, tc, finalText, chatCalls, provCalls, earlier, answer,
                   listed>>

\* main, then further calls of the public methods of the client
NextApi == NextMain \/ CleanupAgain \/ ConnectAgain \/ QueryNotConnected

SpecApi == InitMain /\ [][NextApi]_vars

\* ---- the provider side: one request at a time
\* a tool call or resource read arrives; the handler builds the backend URL
\* and awaits axios.get
HandlerCalled ==
    /\ srv.pc = "idle"
    /\ \E h \in Handlers, id \in Ids, date \in Dates :
         srv' = [Idle EXCEPT !.pc = "fetching", !.handler = h, !.id = id,
                             !.date = date, !.path = BackendPath(h, id, date)]
    /\ UNCHANGED <<app, depth, config, pc, ci, sessions, transports, resources, made,
                   owner, cachedFrom, closeCalls, okConnects, failedNames, entered,
                   failing, exit, queryVars>>

\* the backend request ends and the handler returns or throws
BackendAnswered ==
    /\ srv.pc = "fetching"
    /\ \E o \in BackendOutcomes(srv.handler) :
         srv' = [srv EXCEPT !.pc = "replied", !.outcome = o,
                            !.reply = HandlerReply(srv.handler, srv.id, srv.date, o)]
    /\ UNCHANGED <<app, depth, config, pc, ci, sessions, transports, resources, made,
                   owner, cachedFrom, closeCalls, okConnects, failedNames, entered,
                   failing, exit, queryVars>>

\* the reply has been sent; the provider waits for the next request
ReplySent ==
    /\ srv.pc = "replied"
    /\ srv' = Idle
    /\ UNCHANGED <<app, depth, config, pc, ci, sessions, transports, resources, made,
                   owner, cachedFrom, closeCalls, okConnects, failedNames, entered,
                   failing, exit, queryVars>>

\* interpretHealthMetrics is called: it classifies and replies at once
InterpretCalled ==
    /\ srv.pc = "idle"
    /\ \E x \in MetricsTried :
         LET state == interpretHealthMetrics(x.heartRate, x.citta, x.motion)
         IN  srv' = [Idle EXCEPT
                       !.pc = "replied",
                       !.handler = [server |-> "part_000",
                                    name |-> "interpretHealthMetrics"],
                       !.metrics = x,
                       !.state = state,
                       !.reply = TextResult(<<"state ">> \o state)]
    /\ UNCHANGED <<app, depth, config, pc, ci, sessions, transports, resources, made,
                   owner, cachedFrom, closeCalls, okConnects, failedNames, entered,
                   failing, exit, queryVars>>

\* app.get("/sse"): a transport is created and stored under its sessionId
GetSse ==
    /\ app.made < MaxSessions
    /\ LET n == app.made + 1
       IN  app' = [sessions |-> MapSet(app.sessions, SessionId(n), n),
                   made |-> n,
                   last |-> Handled("get", SessionId(n), "connected", n)]
    /\ UNCHANGED <<srv, depth, config, pc, ci, sessions, transports, resources, made,
                   owner, cachedFrom, closeCalls, okConnects, failedNames, entered,
                   failing, exit, queryVars>>

\* app.post("/messages")
PostMessages ==
    /\ \E sessionId \in PostedIds :
         app' = [app EXCEPT !.last = postMessages(app.sessions, sessionId)]
    /\ UNCHANGED <<srv, depth, config, pc, ci, sessions, transports, resources, made,
                   owner, cachedFrom, closeCalls, okConnects, failedNames, entered,
                   failing, exit, queryVars>>

\* the provider process alone
InitServer == depth = FALSE /\ config = OneProvider /\ InitClient /\ srv = Idle /\ app = NoRequests

NextServer ==
    \/ HandlerCalled \/ BackendAnswered \/ InterpretCalled \/ ReplySent
    \/ GetSse \/ PostMessages

SpecServer == InitServer /\ [][NextServer]_vars

\* ------------------------------------------------------------- claims
\* the requests 1..n of the first response that name a provider with a session
HasSession(i) == MapHas(sessions, RouteServer(toolCalls[i].name))
Served(n) == SelectSeq([i \in 1..n |-> i], LAMBDA i : HasSession(i))
ToolMessages == SelectSeq(messages, LAMBDA m : m.role = "tool")
Finished == pc \in {"returned", "threw"}

\* C1: when session.callTool fails for a dispatched request, processQuery
\* still returns a non-empty string (with the error) instead of failing.
C1_ToolFailureIsReported ==
    (Finished /\ \E i \in DOMAIN provCalls :
                    provCalls[i].op = "callTool" /\ provCalls[i].threw)
    => (pc = "returned" /\ result.kind = "value" /\ result.text # <<>>)

PairsFor(idx) ==
    /\ Len(messages) = 1 + 2 * Len(idx)
    /\ messages[1] = UserMsg(query)
    /\ \A j \in 1..Len(idx) :
         /\ messages[2 * j].role = "assistant"
         /\ messages[2 * j].tool_calls = << toolCalls[idx[j]] >>
         /\ messages[2 * j + 1].role = "tool"
         /\ messages[2 * j + 1].tool_call_id = toolCalls[idx[j]].id

\* C3 as claimed: after the K requests of the response are processed the
\* transcript holds exactly K tool messages, paired and in request order.
C3_OneToolMessagePerRequest ==
    pc = "returned" => PairsFor([i \in 1..Len(toolCalls) |-> i])

\* C3 as amended: the transcript holds one (assistant, tool) pair for each
\* request that names a provider with a session, in request order, and
\* nothing for a request that names a provider without one.
C3_PairPerServedRequest ==
    /\ pc = "returned" => PairsFor(Served(Len(toolCalls)))
    /\ pc = "dispatch" => PairsFor(Served(tc - 1))
    /\ pc = "followup" => PairsFor(Served(tc))

C3_SkippedAndServed ==
    /\ pc = "returned" /\ Len(toolCalls) = 2
    /\ ~HasSession(1) /\ HasSession(2) /\ Len(ToolMessages) = 1

\* C4: a request that names a provider without a session leaves an error
\* note, causes no provider call, and every later request of the response is
\* still dispatched (unless a chat-completion call fails).
C4_SkipDoesNotBlock ==
    (Finished /\ result.text # <<"chat completion failed">>)
    => \A i \in DOMAIN routes :
         routes[i].kind = "skip" =>
           /\ \E k \in DOMAIN finalText : finalText[k] = ServerNotFound(routes[i].server)
           /\ \A c \in Range(provCalls) : c.server # routes[i].server
           /\ \A j \in (i + 1)..Len(toolCalls) :
                j \in DOMAIN routes /\ routes[j].kind # "none"

\* C5 as claimed: a plain-text answer is returned as it is and no provider
\* session is called during the whole processQuery.
C5_PlainTextNoProviderCall ==
    (pc = "returned" /\ toolCalls = <<>>)
    => (result = ValueResult(completion) /\ provCalls = <<>>)

\* C5 as amended: a plain-text answer is returned as it is; the only provider
\* calls are the listTools calls, one per registered session in registry
\* order; no tool is invoked and no resource is read.
C5_PlainTextOnlyListTools ==
    (pc = "returned" /\ toolCalls = <<>>)
    => /\ result = ValueResult(completion)
       /\ Len(provCalls) = Len(sessions)
       /\ \A i \in DOMAIN provCalls :
            provCalls[i] = ProvCall("listTools", sessions[i][1], sessions[i][2],
                                    Undef, FALSE)

C5_PlainAnswerTwoSessions ==
    /\ pc = "returned" /\ toolCalls = <<>> /\ completion = <<"hello">>
    /\ Len(sessions) = 2

\* C6: when main has ended, close was called exactly once on every transport
\* that connectToServer connected.
C6_EveryTransportClosedOnce ==
    pc = "done" =>
      \A id \in DOMAIN made : made[id] = "connected" => closeCalls[id] = 1

\* C7: chatLoop is entered only after some connectToServer call completed;
\* when every call failed main ends with an error without entering it.
C7_LoopOnlyAfterSuccessfulConnect ==
    /\ entered => okConnects >= 1
    /\ (pc = "done" /\ okConnects = 0) => (exit = "error" /\ ~entered)

\* C8: a provider whose connectToServer call failed has no session, is
\* offered to the model under no name and is never contacted by processQuery.
C8_FailedProviderAbsent ==
    \A P \in failedNames :
      /\ ~MapHas(sessions, P)
      /\ \A e \in Range(availableTools) : e.server # P
      /\ \A c \in Range(provCalls) : c.server # P

\* C9: no two entries of the capability list have the same qualified name.
C9_QualifiedNamesUnique ==
    \A i, j \in DOMAIN availableTools :
      i # j => availableTools[i].name # availableTools[j].name

\* the branch the capability e was offered for
RouteOf(e) ==
    Route(IF e.kind = "tool" THEN "callTool" ELSE e.kind, e.server, e.local)

\* C10: a request that carries the qualified name of an offered capability is
\* routed to that capability: its provider, its kind, its local name.
C10_ResolveInvertsQualify ==
    \A k \in DOMAIN routes :
      \A e \in Range(availableTools) :
        (e.name = toolCalls[k].name /\ routes[k].kind # "none")
        => routes[k] = RouteOf(e)

\* the request being dispatched reads a resource, and the read fails: the
\* name is not in the cached list of its provider, or the provider call throws
ReadFailsNow ==
    /\ pc = "dispatch" /\ tc <= Len(toolCalls)
    /\ Len(routes') = Len(routes) + 1
    /\ routes'[Len(routes')].kind = "readResource"
    /\ \/ ~MapHas(resources, RouteServer(toolCalls[tc].name))
       \/ ~MapHas(MapGet(resources, RouteServer(toolCalls[tc].name)),
                  RouteResource(toolCalls[tc].name))
       \/ /\ Len(provCalls') = Len(provCalls) + 1
          /\ provCalls'[Len(provCalls')].threw

ReadErrorPrefix == <<"Error reading resource: ">>
IsReadError(text) ==
    Len(text) > 1 /\ SubSeq(text, 1, 1) = ReadErrorPrefix

\* the failing read itself is caught: the step that dispatches it appends
\* the error text to the output and to the transcript as the request's tool
\* message and goes on to the follow-up completion
ReadFailureBecomesToolResult ==
    [][ ReadFailsNow =>
          /\ pc' = "followup" /\ result' = result /\ tc' = tc
          /\ IsReadError(finalText'[Len(finalText')])
          /\ Len(messages') = Len(messages) + 2
          /\ messages'[Len(messages')] =
               ToolMsg(toolCalls[tc], finalText'[Len(finalText')])
      ]_vars

\* a read failed during this processQuery call: the provider call threw, or
\* the requested name was not in the cached list of its provider
SomeReadFailed ==
    \/ \E c \in Range(provCalls) : c.op = "readResource" /\ c.threw
    \/ \E i \in DOMAIN routes :
         /\ routes[i].kind = "readResource"
         /\ \/ ~MapHas(resources, routes[i].server)
            \/ ~MapHas(MapGet(resources, routes[i].server), routes[i].local)

\* C11: when a readResource dispatch fails (provider error, or a name absent
\* from the cached resource list), the error text is in the output and in a
\* tool message, processQuery does not fail, and every request of the
\* response is processed (unless a chat-completion call fails).
C11_ReadFailureDoesNotEndTurn ==
    (Finished /\ SomeReadFailed /\ result.text # <<"chat completion failed">>)
    => /\ pc = "returned"
       /\ Len(routes) = Len(toolCalls)
       /\ \A i \in DOMAIN routes : routes[i].kind # "none"
       /\ \E k \in DOMAIN finalText : IsReadError(finalText[k])
       /\ \E k \in DOMAIN messages :
            messages[k].role = "tool" /\ IsReadError(messages[k].content)

\* C12: a request whose arguments string is not parseable JSON gives an error
\* result for that request only: processQuery does not throw at it and the
\* requests after it are taken up.
C12_MalformedArgumentsAreReported ==
    \A i \in DOMAIN routes :
      (HasSession(i) /\ ~JsonValid(toolCalls[i].arguments))
      => /\ ~(pc = "threw" /\ i = Len(routes))
         /\ routes[i].kind # "none"

\* the calls made to provider sessions for the requests (not for the tool list)
RequestCalls(calls) == SelectSeq(calls, LAMBDA c : c.op # "listTools")

\* a provider call is made for the request being dispatched
ProviderCallNow ==
    /\ pc = "dispatch"
    /\ Len(provCalls') = Len(provCalls) + 1

\* the order of the calls of one processQuery call, given the earlier
\* requests idx whose tool message must be in the transcript when the
\* provider call of the current request is made
CallsInOrder(idx) ==
    /\ ProviderCallNow =>
         /\ Len(routes) = tc - 1
         /\ PairsFor(idx)
         /\ chatCalls = 1 + Len(Served(tc - 1))
         /\ chatCalls' = chatCalls
         /\ provCalls'[Len(provCalls')].server = RouteServer(toolCalls[tc].name)
         /\ pc' = "followup" =>
              messages'[Len(messages')].tool_call_id = toolCalls[tc].id
    /\ chatCalls' > chatCalls => provCalls' = provCalls
    /\ (pc \in {"dispatch", "followup"} /\ pc' \in {"dispatch", "followup"})
         => tc' \in {tc, tc + 1}

Replies(msgs) ==
    SelectSeq(msgs, LAMBDA m : m.role = "assistant" /\ m.tool_calls = <<>>)

\* C14: a transcript sent to the chat-completion API starts with the single
\* user message, every assistant message carrying a request is followed by
\* the tool message of that request, and every reply the model has given
\* after a tool result is in the transcript after that tool result.
C14_TranscriptInCausalOrder ==
    pc \in {"completion", "followup"} =>
      /\ messages[1] = UserMsg(query)
      /\ \A k \in 2..Len(messages) : messages[k].role # "user"
      /\ \A k \in 1..Len(messages) :
           (messages[k].role = "assistant" /\ messages[k].tool_calls # <<>>)
           => /\ k < Len(messages)
              /\ messages[k + 1].role = "tool"
              /\ messages[k + 1].tool_call_id = messages[k].tool_calls[1].id
      /\ Len(Replies(messages)) = chatCalls - (IF pc = "followup" THEN 1 ELSE 0)

\* C15: the transcript of the first chat-completion call of a processQuery
\* call is exactly one user message holding the query text, however the
\* previous call ended and however long its transcript had grown; so the
\* transcript depends on the query alone.
C15_FreshTranscript ==
    pc = "completion" =>
      /\ Len(messages) = 1
      /\ messages[1].role = "user" /\ messages[1].content = query
      /\ messages[1].tool_calls = <<>>
      /\ chatCalls = 0

\* a query follows one that ended in an error after two tool results
C15_QueryAfterLongFailedTurn ==
    /\ pc = "completion" /\ query = <<"hi">>
    /\ earlier = Earlier("error", 5)

\* a processQuery call is running
InProcessQuery == pc \in {"query", "completion", "dispatch", "followup"}

\* C16: no step of processQuery, whether the call goes on, returns or
\* throws, changes the session registry, the transport registry or the
\* cached resource catalog.
C16_RegistriesUntouchedByQuery ==
    [][ InProcessQuery =>
          /\ sessions' = sessions
          /\ transports' = transports
          /\ resources' = resources ]_vars

\* a call that listed and read resources has returned
C16_ReturnedAfterResourceRequests ==
    /\ pc = "returned" /\ Len(routes) = 2
    /\ routes[1].kind = "listResources" /\ routes[2].kind = "readResource"
    /\ sessions # <<>> /\ transports # <<>>
    /\ MapHas(resources, NameA) /\ MapGet(resources, NameA) # <<>>

\* C17: an error that escapes processQuery does not end chatLoop: the next
\* step prompts again with main still running and the registries as they
\* were, and the prompt after an error is the same state as any other
\* prompt, so the next query is processed like a first one.
C17_ErrorDoesNotEndLoop ==
    [][ /\ pc = "threw" =>
            /\ pc' = "prompt" /\ exit' = "running" /\ failing' = FALSE
            /\ sessions' = sessions /\ transports' = transports
            /\ resources' = resources
            /\ earlier'.kind = "error"
        /\ (pc = "prompt" /\ earlier.kind = "error") =>
            /\ FreshQuery /\ result = NoResult
            /\ hasActiveSessions(sessions) /\ exit = "running"
      ]_vars

\* after a failed call the next query passed the guard and got its tool list
C17_NextQueryUnderWay ==
    /\ pc = "completion" /\ earlier = Earlier("error", 1)
    /\ availableTools # <<>> /\ messages = << UserMsg(query) >>

\* C18: chatLoop hands a line to processQuery only when the trimmed line is
\* not empty and is not quit in any letter case; a line that trims to quit
\* ends the loop instead.
C18_OnlyNonEmptyQueriesForwarded ==
    pc = "query" => (query # <<>> /\ toLowerCase(query) # <<"quit">>)

\* a provider result with the payload of every image or binary part replaced
\* by one fixed payload: two results that differ only in payload bytes have
\* the same masked result
MaskedPayload == <<"MASKED">>
MaskItems(content) ==
    [i \in 1..Len(content) |->
       IF content[i].data = Undef THEN content[i]
       ELSE [content[i] EXCEPT !.data = MaskedPayload]]
MaskContents(contents) ==
    [i \in 1..Len(contents) |->
       IF contents[i].blob = Undef THEN contents[i]
       ELSE [contents[i] EXCEPT !.blob = MaskedPayload]]

\* lines 286-288: the content of a resource result
ResourceContent(contents) ==
    IF Falsy(ResourceText(contents)) THEN <<"Resource content is empty">>
    ELSE ResourceText(contents)

LastLine == finalText[Len(finalText)]
LastMessage == messages[Len(messages)]

\* C19: the text appended to the output and the tool message made from a
\* provider result are those of the masked result, so two results that
\* differ only in the payload bytes of image or binary parts give the same
\* returned text and the same transcript, for tool results and for resource
\* reads.
C19_PayloadBytesDoNotShow ==
    pc = "followup" =>
      /\ answer.kind = "callTool" =>
           /\ LastLine = RenderContent(MaskItems(answer.value), TRUE, ImageNoteOut)
           /\ LastMessage.content =
                RenderContent(MaskItems(answer.value), TRUE, ImageNoteMsg)
      /\ answer.kind = "readResource" =>
           /\ LastLine = ResourceContent(MaskContents(answer.value))
           /\ LastMessage.content = ResourceContent(MaskContents(answer.value))

\* transport id was connected and close has not been called on it
Open(id) == made[id] = "connected" /\ closeCalls[id] = 0

\* C20: no provider name has two open transports: connecting a name that
\* already has a session does not leave the earlier transport open.
C20_OneOpenTransportPerName ==
    \A i, j \in DOMAIN made :
      (i # j /\ owner[i] = owner[j]) => ~(Open(i) /\ Open(j))

\* C21: the resources cached for a provider are those listed by its current
\* session: after a connectToServer call that replaced the session, whether
\* it then returned or threw, nothing listed by the previous session is
\* cached or offered as a readResource capability.
C21_CacheIsOfCurrentSession ==
    /\ \A i \in DOMAIN sessions :
         MapHas(resources, sessions[i][1])
         => /\ MapHas(cachedFrom, sessions[i][1])
            /\ MapGet(cachedFrom, sessions[i][1]) = sessions[i][2]
    /\ \A e \in Range(availableTools) :
         e.kind = "readResource"
         => MapGet(cachedFrom, e.server) = MapGet(sessions, e.server)

\* provider P completed its connect and declared no resource
DeclaresNoResource(P) ==
    /\ MapHas(sessions, P) /\ MapHas(cachedFrom, P)
    /\ MapGet(cachedFrom, P) = MapGet(sessions, P)
    /\ MapHas(resources, P) /\ MapGet(resources, P) = <<>>

\* C22: for a connected provider that declared no resource, the capability
\* list still holds its listResources entry, and a listResources request
\* for it gives the empty list as a result, never an error.
C22_EmptyCatalogStillListed ==
    \A i \in DOMAIN sessions :
      LET P == sessions[i][1]
      IN  DeclaresNoResource(P) =>
            /\ pc \in {"completion", "dispatch", "followup", "returned"} =>
                 \E e \in Range(availableTools) :
                   e = Offer(QualifyList(P), "listResources", P, Undef)
            /\ \A k \in DOMAIN routes :
                 (routes[k].kind = "listResources" /\ routes[k].server = P)
                 => \E m \in Range(messages) :
                      /\ m.role = "tool" /\ m.tool_call_id = toolCalls[k].id
                      /\ m.content = <<"Available resources on ">> \o P
                                       \o <<":", "\n">>

\* a listResources request for a provider without resources was answered
C22_EmptyListAnswered ==
    /\ pc = "followup" /\ routes[tc].kind = "listResources"
    /\ DeclaresNoResource(NameA)
    /\ LastLine = <<"Available resources on ", "A", ":", "\n">>

\* the entries the claim names for session i: one per listed tool, the
\* listResources entry, one per resource cached for the provider
EntriesOf(i) ==
    LET P == sessions[i][1]
        cached == IF MapHas(resources, P) THEN MapGet(resources, P) ELSE <<>>
    IN  [k \in 1..Len(listed[i]) |->
           [name |-> P \o <<"__">> \o listed[i][k], kind |-> "tool",
            server |-> P, local |-> listed[i][k]]]
        \o << [name |-> P \o <<"__", "listResources">>, kind |-> "listResources",
               server |-> P, local |-> Undef] >>
        \o [k \in 1..Len(cached) |->
              [name |-> P \o <<"__", "readResource", "__">> \o cached[k][1],
               kind |-> "readResource", server |-> P, local |-> cached[k][1]]]

RECURSIVE EntriesFrom(_)
EntriesFrom(i) ==
    IF i > Len(sessions) THEN <<>> ELSE EntriesOf(i) \o EntriesFrom(i + 1)

CallsProvider(k) ==
    \/ routes[k].kind = "callTool"
    \/ /\ routes[k].kind = "readResource"
       /\ MapHas(resources, routes[k].server)
       /\ MapHas(MapGet(resources, routes[k].server), routes[k].local)
CallingRequests ==
    SelectSeq([k \in 1..Len(routes) |-> k], LAMBDA k : CallsProvider(k))

\* C24: the provider calls made for the requests of a response are, in
\* request order, one call for each request routed to a tool invocation or
\* to a cached resource, failed or not, and no call for any other request:
\* none is repeated and a listResources request causes none.
C24_OneCallPerRequest ==
    LET calls == RequestCalls(provCalls)
    IN  /\ Len(calls) = Len(CallingRequests)
        /\ \A j \in 1..Len(calls) :
             /\ calls[j].op = routes[CallingRequests[j]].kind
             /\ calls[j].server = routes[CallingRequests[j]].server

\* a failed read and a failed invocation in one response, each called once
C24_TwoFailuresTwoCalls ==
    /\ pc = "threw" /\ Len(routes) = 2
    /\ Len(RequestCalls(provCalls)) = 2
    /\ \A c \in Range(RequestCalls(provCalls)) : c.threw


\* C25: every handler that calls the fixed backend (the healthMetrics and
\* getHealthImageData tools and the healthImage resource) answers a backend
\* timeout with a successful result that carries a text, never with a raised
\* error.
C25_TimeoutBecomesTextResult ==
    (srv.pc = "replied" /\ srv.outcome = "timeout")
    => /\ srv.reply.kind = "result"
       /\ srv.reply.type = "text"
       /\ srv.reply.text # <<>>

\* the date written without its dashes
Dashless(date) == SelectSeq(date, LAMBDA c : c # "-")

\* C26: the date-accepting tools request the same backend path for a date
\* written with dashes as for the same date written without them, and a date
\* without dashes is requested as it stands.
C26_PathIgnoresDashes ==
    (srv.pc # "idle" /\ srv.handler.name \in {"healthMetrics", "getHealthImageData"}
     /\ srv.date # Undef)
    => /\ srv.path = BackendPath(srv.handler, srv.id, Dashless(srv.date))
       /\ BackendPath(srv.handler, srv.id, Dashless(srv.date))
            = BackendPath(srv.handler, srv.id, Dashless(Dashless(srv.date)))


\* the entry found for serverName is a subprocess provider whose command
\* starts with no program token
NoProgramToken(serverName) ==
    /\ HasConfig(config, serverName)
    /\ FindConfig(config, serverName).type = "command"
    /\ ~Falsy(FindConfig(config, serverName).command)
    /\ Falsy(Split(FindConfig(config, serverName).command, " ")[1])

\* C27: connectToServer for a subprocess provider whose command has no
\* program token throws without creating a transport, and the session, the
\* transport and the resource registries are as they were before the call.
C27_NoProgramFailsFast ==
    [][ (pc = "connect" /\ ci' = ci + 1 /\ NoProgramToken(getOpenServers(config)[ci]))
        => /\ getOpenServers(config)[ci] \in failedNames'
           /\ okConnects' = okConnects
           /\ made' = made
           /\ sessions' = sessions
           /\ transports' = transports
           /\ resources' = resources ]_vars

\* a provider was connected, then the entry without a program was refused
C27_RefusedAfterAnotherConnected ==
    /\ NoProgramToken(NameA)
    /\ NameA \in failedNames
    /\ MapHas(sessions, NameB) /\ MapHas(resources, NameB)
    /\ pc = "connect" /\ ci = 3


\* C28: a second cleanup call after a cleanup that completed calls close on
\* no transport and leaves the registries empty.
C28_SecondCleanupClosesNothing ==
    [][ (pc = "done" /\ pc' = "closed" /\ transports = <<>> /\ sessions = <<>>)
        => /\ closeCalls' = closeCalls
           /\ transports' = <<>>
           /\ sessions' = <<>>
           /\ resources' = resources ]_vars

\* cleanup ran twice on a client whose two transports the first run closed
C28_CleanedUpTwice ==
    /\ pc = "closed"
    /\ transports = <<>> /\ sessions = <<>>
    /\ Len(closeCalls) = 2
    /\ \A id \in 1..Len(closeCalls) : closeCalls[id] = 1


\* the trace line of a request, as its qualified name and arguments give it
TraceLine(call) ==
    IF RouteKind(call.name) = "listResources"
    THEN <<"[Listing resources on server ">> \o RouteServer(call.name) \o <<"]">>
    ELSE IF RouteKind(call.name) = "readResource"
    THEN <<"[Reading resource ">> \o RouteResource(call.name) \o <<" on server ">>
         \o RouteServer(call.name) \o <<" with params ">>
         \o JsonStringify(JsonParse(call.arguments)) \o <<"]">>
    ELSE <<"[Calling tool ">> \o RouteType(call.name) \o <<" on server ">>
         \o RouteServer(call.name) \o <<" with args ">>
         \o JsonStringify(JsonParse(call.arguments)) \o <<"]">>

\* the renderings the output may show for the result of request k, given the
\* collapsed text the transcript holds for it
ShownResults(k) ==
    LET at == 1 + 2 * Len(Served(k))
    IN  IF ~HasSession(k) \/ at > Len(messages) THEN {}
        ELSE IF RouteKind(toolCalls[k].name) = "callTool"
        THEN { RenderContent(tr, TRUE, ImageNoteOut) :
                 tr \in { t \in ToolResults :
                            RenderContent(t, TRUE, ImageNoteMsg) = messages[at].content } }
        ELSE { messages[at].content }

\* what request k adds to the output; notes: a request whose provider has no
\* session adds the error note instead
OutputOfRequest(k, notes) ==
    IF notes /\ ~HasSession(k)
    THEN { << ServerNotFound(RouteServer(toolCalls[k].name)) >> }
    ELSE { << TraceLine(toolCalls[k]), shown >> \o reply :
             shown \in ShownResults(k),
             reply \in { IF Falsy(c) THEN <<>> ELSE << c >> : c \in Contents } }

RECURSIVE OutputsUpTo(_, _)
\* the outputs the first k requests may have produced after the first content
OutputsUpTo(k, notes) ==
    IF k = 0 THEN { IF Falsy(completion) THEN <<>> ELSE << completion >> }
    ELSE { before \o piece : before \in OutputsUpTo(k - 1, notes),
                             piece \in OutputOfRequest(k, notes) }

\* C29 as stated: the returned string is the newline-join of the first
\* response's content followed, for each request in request order, by its
\* trace line, its rendered result and the follow-up content.
C29_OutputIsTraceResultReply ==
    pc = "returned"
    => /\ result.text = Join(finalText, "\n")
       /\ finalText \in OutputsUpTo(Len(toolCalls), FALSE)

\* C29 amended: the returned string is the newline-join of the output
\* accumulator in production order: the first response's content if it has
\* one, then for each request in request order either the error note, when
\* its provider has no session, or its trace line, its rendered result and
\* the follow-up content if there is one.
C29_OutputInProductionOrder ==
    pc = "returned"
    => /\ result.text = Join(finalText, "\n")
       /\ finalText \in OutputsUpTo(Len(toolCalls), TRUE)

\* a returned turn with a first content, a request without session and a
\* served request whose follow-up had content
C29_NoteThenServedRequest ==
    /\ pc = "returned"
    /\ ~Falsy(completion)
    /\ Len(toolCalls) = 2 /\ ~HasSession(1) /\ HasSession(2)
    /\ Len(finalText) = 5


\* the passes the loop over the requests of the first response still has to
\* make, counted in half passes: 0 once processQuery has ended
TurnMeasure ==
    IF pc \in {"dispatch", "followup"}
    THEN 2 * (Len(toolCalls) + 1 - tc) + (IF pc = "dispatch" THEN 1 ELSE 0)
    ELSE 0

\* C30: a response to a follow-up call adds no request: the requests of the
\* first response are fixed while they are processed, every step of the loop
\* brings processQuery nearer its end, the provider invocations of one
\* processQuery are at most as many as the requests of the first response and
\* its chat-completion calls at most one more.
C30_BoundedTurn ==
    [][ /\ Len(RequestCalls(provCalls')) <= Len(toolCalls')
        /\ chatCalls' <= Len(toolCalls') + 1
        /\ pc \in {"dispatch", "followup"}
           => /\ toolCalls' = toolCalls
              /\ TurnMeasure' < TurnMeasure ]_vars

\* a turn that returned after as many invocations as the first response had
\* requests and one chat-completion call more
C30_EveryRequestInvoked ==
    /\ pc = "returned"
    /\ Len(toolCalls) = MaxCalls
    /\ Len(RequestCalls(provCalls)) = Len(toolCalls)
    /\ chatCalls = Len(toolCalls) + 1


\* the request processQuery ended on was a listResources request that the
\* missing cache entry of a registered provider made fail
ListingRaised ==
    /\ pc = "threw" /\ routes # <<>>
    /\ routes[Len(routes)].kind = "listResources"
    /\ MapHas(sessions, routes[Len(routes)].server)
    /\ result.text = <<"No resources available for server: ">>
                       \o routes[Len(routes)].server

\* C31: every provider name of the session registry has an entry, possibly
\* empty, in the resource cache, whatever connectToServer calls succeeded or
\* failed; so a listResources request for a registered provider never raises.
C31_RegisteredProviderHasCache ==
    /\ \A i \in 1..Len(sessions) : MapHas(resources, sessions[i][1])
    /\ ~ListingRaised


\* the provider names a registry holds
NamesOf(m) == { m[i][1] : i \in 1..Len(m) }

\* C32: the session registry and the transport registry hold the same provider
\* names in every state between two operations, and hasActiveSessions is true
\* exactly when a transport is registered.
C32_RegistriesHoldSameNames ==
    /\ NamesOf(sessions) = NamesOf(transports)
    /\ hasActiveSessions(sessions) <=> Len(transports) > 0

\* a client that was cleaned up, connected again and whose next cleanup failed
C32_ReconnectedAfterCleanup ==
    /\ pc = "closed"
    /\ Len(made) = MaxTransports
    /\ NamesOf(transports) = {NameA, NameB}
    /\ \E i \in 1..Len(transports) : closeCalls[transports[i][2]] = 1


\* C33: when cleanup has run, close was called on every transport that was
\* registered and both registries are empty, also when a close failed.
C33_CleanupClosesAllAndClears ==
    pc = "done"
    => /\ \A i \in 1..Len(transports) : closeCalls[transports[i][2]] >= 1
       /\ sessions = <<>>
       /\ transports = <<>>


\* C34: processQuery called while the session registry is empty fails with
\* the not-connected error, makes no chat-completion call and no provider
\* call, and changes nothing of the client.
C34_NotConnectedFailsAtOnce ==
    [][ (Len(sessions) = 0 /\ pc \in {"connect", "done", "closed"} /\ result' # result)
        => /\ result' = ErrorResult(<<"Not connected to any server">>)
           /\ chatCalls' = chatCalls
           /\ provCalls' = provCalls
           /\ UNCHANGED <<sessions, transports, resources, made, closeCalls,
                          messages, availableTools, finalText>> ]_vars

\* processQuery was refused on a client that had been connected and cleaned up
C34_RefusedAfterCleanup ==
    /\ pc = "closed"
    /\ okConnects >= 1 /\ sessions = <<>>
    /\ result = ErrorResult(<<"Not connected to any server">>)
    /\ chatCalls = 0 /\ provCalls = <<>>


\* the sessionId was issued by one of the GET /sse requests made so far
IssuedBySse(sessionId) == \E n \in 1..app.made : sessionId = SessionId(n)

\* C35: a POST to /messages is handed to a transport only if its sessionId
\* was registered by an earlier GET /sse, and then to the transport that GET
\* created; a POST with any other sessionId is answered 404 and handled by no
\* transport.
C35_PostReachesItsOwnTransport ==
    app.last.op = "post"
    => IF IssuedBySse(app.last.sessionId)
       THEN /\ app.last.status = "handled"
            /\ SessionId(app.last.by) = app.last.sessionId
       ELSE /\ app.last.status = "404"
            /\ app.last.by = 0


\* the three flags of a reading: high citta, high heart rate, high motion
FlagsOf(x) == << x.citta > 50, x.heartRate > 80, x.motion > 5 >>

\* C36: interpretHealthMetrics gives every reading exactly one state among
\* 1..8, the same state to readings with the same three flags and different
\* states to readings whose flags differ; no reading is left without state.
C36_EightFlagsEightStates ==
    (srv.pc = "replied" /\ srv.handler.name = "interpretHealthMetrics")
    => /\ srv.state \in { <<"1">>, <<"2">>, <<"3">>, <<"4">>,
                          <<"5">>, <<"6">>, <<"7">>, <<"8">> }
       /\ \A y \in MetricsTried :
            (FlagsOf(y) = FlagsOf(srv.metrics))
            <=> (interpretHealthMetrics(y.heartRate, y.citta, y.motion) = srv.state)

\* a reading with all three values above their thresholds was classified
C36_AllHighClassified ==
    /\ srv.pc = "replied" /\ srv.handler.name = "interpretHealthMetrics"
    /\ FlagsOf(srv.metrics) = <<TRUE, TRUE, TRUE>>
    /\ srv.state = <<"2">>

====
